---- MODULE Spec2Model ----
(***************************************************************************)
(* mamajek.py: interpolation in E. Mamajek's mean dwarf sequence table.    *)
(*                                                                         *)
(* Numbers are fixed-point integers.  Each column keeps the number of      *)
(* decimals the source prints it with:                                     *)
(*   Teff       kelvin                                                     *)
(*   logTeff    1/1000 dex          BV         1/1000 mag                  *)
(*   logL       1/100 dex           Mbol, Mv   1/100 mag                   *)
(*   Rsun       1/100 Rsun          Msun       1/100 Msun                  *)
(* Row indices are the source's 0-based indices; a TLA+ sequence is        *)
(* 1-based, so row i of a column a is a[i + 1].                            *)
(***************************************************************************)
EXTENDS Integers, Sequences, FiniteSets, TLC

\* src/mamajek.py:57-65
sptype ==
    << "O3V", "O4V", "O5V", "O5.5V", "O6V", "O6.5V", "O7V", "O7.5V", "O8V", "O8.5V",
       "O9V", "O9.5V", "B0V", "B0.5V", "B1V", "B1.5V", "B2V", "B2.5V", "B3V", "B4V",
       "B5V", "B6V", "B7V", "B8V", "B9V", "B9.5V", "A0V", "A1V", "A2V", "A3V",
       "A4V", "A5V", "A6V", "A7V", "A8V", "A9V", "F0V", "F1V", "F2V", "F3V",
       "F4V", "F5V", "F6V", "F7V", "F8V", "F9V", "F9.5V", "G0V", "G1V", "G2V",
       "G3V", "G4V", "G5V", "G6V", "G7V", "G8V", "G9V", "K0V", "K1V", "K2V",
       "K3V", "K4V", "K5V", "K6V", "K7V", "K8V", "K9V", "M0V", "M0.5V", "M1V",
       "M1.5V", "M2V", "M2.5V", "M3V", "M3.5V", "M4V", "M4.5V", "M5V", "M5.5V", "M6V",
       "M6.5V", "M7V", "M7.5V", "M8V", "M8.5V", "M9V" >>

\* src/mamajek.py:67-75
Teff ==
    << 44900, 42900, 41400, 40500, 39500, 38300, 37100, 36100, 35100, 34300,
       33300, 31900, 31400, 29000, 26000, 24500, 20600, 18500, 17000, 16400,
       15700, 14500, 14000, 12300, 10700, 10400, 9700, 9300, 8800, 8600,
       8250, 8100, 7910, 7760, 7590, 7400, 7220, 7020, 6820, 6750,
       6670, 6550, 6350, 6280, 6180, 6050, 5990, 5930, 5860, 5770,
       5720, 5680, 5660, 5600, 5550, 5480, 5380, 5270, 5170, 5100,
       4830, 4600, 4440, 4300, 4100, 3990, 3930, 3850, 3770, 3660,
       3620, 3560, 3470, 3430, 3270, 3210, 3110, 3060, 2930, 2810,
       2740, 2680, 2630, 2570, 2420, 2380 >>

\* src/mamajek.py:77-85, times 1000
logTeff ==
    << 4652, 4632, 4617, 4607, 4597, 4583, 4569, 4558, 4545, 4535,
       4522, 4504, 4497, 4462, 4415, 4389, 4314, 4267, 4230, 4215,
       4196, 4161, 4146, 4090, 4029, 4017, 3987, 3968, 3944, 3934,
       3917, 3908, 3898, 3890, 3880, 3869, 3859, 3846, 3834, 3829,
       3824, 3816, 3803, 3798, 3791, 3782, 3777, 3773, 3768, 3761,
       3757, 3754, 3753, 3748, 3744, 3739, 3731, 3723, 3713, 3708,
       3684, 3663, 3647, 3633, 3613, 3601, 3594, 3585, 3576, 3563,
       3559, 3551, 3540, 3535, 3515, 3507, 3493, 3486, 3467, 3449,
       3438, 3428, 3420, 3410, 3384, 3377 >>

\* src/mamajek.py:97-105, times 100
logL ==
    << 582, 565, 554, 544, 536, 527, 518, 509, 499, 491,
       482, 472, 465, 443, 413, 391, 343, 320, 299, 289,
       277, 257, 248, 219, 186, 180, 158, 149, 138, 123,
       113, 109, 105, 100, 96, 92, 86, 79, 71, 67,
       62, 56, 43, 39, 29, 22, 18, 13, 8, 1,
       -1, -4, -5, -10, -13, -17, -26, -34, -39, -43,
       -55, -69, -76, -86, -100, -106, -110, -116, -127, -139,
       -144, -154, -164, -179, -203, -214, -240, -252, -279, -298,
       -310, -319, -324, -328, -347, -352 >>

\* src/mamajek.py:107-115, times 100
Mbol ==
    << -981, -939, -911, -887, -867, -844, -821, -798, -774, -753,
       -731, -706, -689, -633, -558, -504, -383, -327, -274, -249,
       -219, -168, -145, -73, 8, 24, 78, 102, 128, 166,
       192, 201, 213, 224, 234, 245, 258, 277, 297, 307,
       319, 335, 366, 377, 401, 420, 429, 442, 455, 472,
       478, 483, 488, 499, 508, 516, 539, 559, 572, 581,
       613, 646, 665, 689, 723, 740, 749, 765, 791, 822,
       835, 859, 882, 921, 982, 1010, 1074, 1104, 1172, 1219,
       1248, 1271, 1284, 1295, 1342, 1354 >>

\* src/mamajek.py:117-125, times 100
Rsun ==
    << 1343, 1213, 1145, 1071, 1027, 982, 942, 895, 847, 806,
       772, 750, 716, 648, 571, 502, 406, 389, 361, 346,
       336, 327, 294, 286, 249, 245, 219, 214, 212, 186,
       179, 178, 177, 175, 175, 175, 173, 168, 162, 158,
       153, 147, 136, 132, 122, 117, 114, 110, 106, 101,
       100, 99, 98, 95, 93, 91, 85, 81, 80, 78,
       76, 71, 70, 67, 63, 61, 61, 59, 54, 50,
       48, 45, 42, 36, 30, 27, 22, 20, 16, 14,
       13, 12, 12, 11, 10, 10 >>

\* src/mamajek.py:127-135, times 100
Mv ==
    << -580, -550, -535, -520, -510, -495, -480, -465, -450, -435,
       -420, -405, -390, -350, -300, -260, -180, -150, -120, -100,
       -85, -55, -40, 0, 50, 60, 99, 116, 135, 170,
       194, 201, 212, 223, 232, 243, 257, 276, 297, 308,
       320, 337, 369, 380, 405, 425, 435, 448, 462, 480,
       487, 493, 498, 510, 520, 530, 555, 578, 595, 607,
       650, 698, 728, 764, 816, 843, 856, 880, 920, 964,
       985, 1021, 1061, 1115, 1210, 1261, 1358, 1415, 1530, 1632,
       1710, 1770, 1816, 1860, 1920, 1940 >>

\* src/mamajek.py:137-145, times 1000
BV ==
    << -330, -326, -323, -322, -321, -319, -318, -317, -315, -314,
       -312, -307, -301, -289, -278, -252, -215, -198, -178, -165,
       -156, -140, -128, -109, -70, -50, 0, 35, 70, 100,
       140, 160, 185, 210, 250, 270, 295, 330, 370, 390,
       410, 440, 486, 500, 530, 560, 580, 595, 622, 650,
       660, 670, 680, 700, 710, 730, 775, 816, 857, 884,
       990, 1090, 1150, 1240, 1340, 1363, 1400, 1420, 1445, 1485,
       1495, 1505, 1522, 1530, 1600, 1650, 1690, 1830, 1940, 2010,
       2070, 2120, 2140, 2150, 2160, 2170 >>

\* src/mamajek.py:147-155, times 100
Msun ==
    << 5900, 4800, 4300, 3800, 3500, 3100, 2800, 2600, 2360, 2190,
       2020, 1870, 1770, 1480, 1180, 990, 730, 610, 540, 510,
       470, 430, 392, 338, 275, 268, 218, 205, 198, 186,
       193, 188, 183, 177, 181, 175, 161, 150, 146, 144,
       138, 133, 125, 121, 118, 113, 108, 106, 103, 100,
       99, 98, 98, 97, 95, 94, 90, 88, 86, 82,
       78, 73, 70, 69, 64, 62, 59, 57, 54, 50,
       47, 44, 40, 37, 27, 23, 18, 16, 12, 10,
       9, 9, 9, 9, 8, 8 >>


(***************************************************************************)
(* Bounds of the model.                                                    *)
(***************************************************************************)
\* Query values lie within QueryOffset units of a tabulated value (or at the
\* integer midpoint of two neighbouring rows).
QueryOffset == 1

\* The largest number of comma-separated values of --val.
MaxStars == 2

(***************************************************************************)
(* The table as the program addresses it.                                  *)
(***************************************************************************)
\* A table column with its last row lost.
conversShort ==
    [Teff |-> Teff, logTeff |-> logTeff, logL |-> logL, Mbol |-> Mbol,
     R |-> Rsun, Mv |-> Mv, BV |-> BV, M |-> SubSeq(Msun, 1, Len(Msun) - 1)]

\* src/mamajek.py:175
convers ==
    [Teff |-> Teff, logTeff |-> logTeff, logL |-> logL, Mbol |-> Mbol,
     R |-> Rsun, Mv |-> Mv, BV |-> BV, M |-> Msun]

\* The keys of convers in the order the dictionary iterates them.
conversKeys ==
    << "Teff", "logTeff", "logL", "Mbol", "R", "Mv", "BV", "M" >>

Keys == {conversKeys[k] : k \in 1..Len(conversKeys)}

(***************************************************************************)
(* Python and numpy primitives used by interpolate_in.                     *)
(***************************************************************************)
Abs(x) == IF x < 0 THEN -x ELSE x

\* The 0-based indices of a
Rows(a) == 0..(Len(a) - 1)

\* np.abs(valor - par_prim)
AbsDiff(valor, a) == [k \in 1..Len(a) |-> Abs(valor - a[k])]

\* ndarray.argmin with a later equal element replacing the earlier one.
RECURSIVE argminLast(_, _, _)
argminLast(a, lo, hi) ==
    IF lo = hi THEN lo
    ELSE LET m == (lo + hi) \div 2
             l == argminLast(a, lo, m)
             r == argminLast(a, m + 1, hi)
         IN  IF a[r + 1] <= a[l + 1] THEN r ELSE l

\* ndarray.argmin over the 0-based indices lo..hi: the smallest element, and
\* of equal elements the one of lowest index.  The two halves are reduced
\* separately and the left one wins a tie, which is the result of numpy's
\* left-to-right scan with a strict comparison.
RECURSIVE argminRange(_, _, _)
argminRange(a, lo, hi) ==
    IF lo = hi THEN lo
    ELSE LET m == (lo + hi) \div 2
             l == argminRange(a, lo, m)
             r == argminRange(a, m + 1, hi)
         IN  IF a[r + 1] < a[l + 1] THEN r ELSE l

argmin(a) == argminRange(a, 0, Len(a) - 1)

\* np.linspace(start, stop, num, dtype=int): num samples start + k*step with
\* step = (stop - start)/(num - 1), the last one set to stop, each rounded
\* down to an integer.
linspace(start, stop, num) ==
    [k \in 1..num |->
        IF num = 1 THEN start
        ELSE IF k = num THEN stop
        ELSE start + ((k - 1) * (stop - start)) \div (num - 1)]

\* margin = 5 (src/mamajek.py:160)
margin == 5

\* The branch with the upper limit of the middle branch left out.
windowBranchNoTail(idx, n) ==
    IF idx >= margin THEN "mid"
    ELSE IF idx < margin THEN "head"
    ELSE IF idx > n - margin THEN "tail"
    ELSE "none"

\* Which of the three branches of the if/elif chain is taken.
windowBranch(idx, n) ==
    IF idx >= margin /\ idx <= n - margin THEN "mid"
    ELSE IF idx < margin THEN "head"
    ELSE IF idx > n - margin THEN "tail"
    ELSE "none"

\* idx_peq: the row indices of the window.
idx_peq(idx, n) ==
    LET b == windowBranch(idx, n) IN
    IF b = "mid" THEN linspace(idx - margin, idx + margin, 2 * margin + 1)
    ELSE IF b = "head" THEN linspace(0, idx + margin, idx + margin)
    ELSE IF b = "tail" THEN linspace(idx - margin, n - 1, n - idx + margin)
    ELSE << >>

\* An integer-array index is valid from -len to len - 1.
InBounds(ix, n) == \A k \in 1..Len(ix) : ix[k] >= -n /\ ix[k] < n

\* a[ix] for an integer array ix (a negative index counts from the end).
Take(a, ix) ==
    [k \in 1..Len(ix) |-> IF ix[k] < 0 THEN a[ix[k] + Len(a) + 1] ELSE a[ix[k] + 1]]

\* Insert position p into the sorted position list s, after every position
\* whose key is not greater.
RECURSIVE InsertSorted(_, _, _)
InsertSorted(s, p, key) ==
    IF s = << >> THEN << p >>
    ELSE IF key[p] < key[Head(s)] THEN << p >> \o s
    ELSE << Head(s) >> \o InsertSorted(Tail(s), p, key)

RECURSIVE argsortUpTo(_, _)
argsortUpTo(key, k) ==
    IF k = 0 THEN << >> ELSE InsertSorted(argsortUpTo(key, k - 1), k, key)

\* ndarray.argsort: the (1-based) positions of key in ascending order of key.
argsort(key) == argsortUpTo(key, Len(key))

Permute(a, srt) == [k \in 1..Len(srt) |-> a[srt[k]]]

\* CubicSpline refuses abscissas that are not strictly increasing, and fewer
\* than two of them.
StrictlyIncreasing(x) == \A k \in 1..(Len(x) - 1) : x[k] < x[k + 1]

\* spl(valor).  A spline passes through its knots, so at a knot the value is
\* the knot's ordinate.  Between knots the value is the result of a
\* floating-point computation that is not carried here: known is FALSE.
SplineAt(x, y, valor) ==
    IF \E k \in 1..Len(x) : x[k] = valor
    THEN [known |-> TRUE, val |-> y[CHOOSE k \in 1..Len(x) : x[k] = valor]]
    ELSE [known |-> FALSE, val |-> 0]

NoValue == [known |-> FALSE, val |-> 0]

\* interpolate_in(par_prim, par_seg, valor): what the call ends in (outcome
\* is "value" for a return, else the exception raised), the index idx of
\* line 161, the branch taken, the window idx_peq and the spline's value.
interpolate_in(par_prim, par_seg, valor) ==
    LET n    == Len(par_prim)
        idx  == argmin(AbsDiff(valor, par_prim))
        b    == windowBranch(idx, n)
        ix   == idx_peq(idx, n)
        base == [outcome |-> "value", idx |-> idx, branch |-> b,
                 idx_peq |-> ix, newval |-> NoValue]
    IN  IF ~(InBounds(ix, n) /\ InBounds(ix, Len(par_seg)))
        THEN [base EXCEPT !.outcome = "IndexError"]
        ELSE LET prim == Take(par_prim, ix)
                 seg  == Take(par_seg, ix)
                 srt  == argsort(prim)
                 x    == Permute(prim, srt)
                 y    == Permute(seg, srt)
             IN  IF Len(x) < 2 \/ ~StrictlyIncreasing(x)
                 THEN [base EXCEPT !.outcome = "ValueError"]
                 ELSE [base EXCEPT !.newval = SplineAt(x, y, valor)]

(***************************************************************************)
(* State.                                                                  *)
(*                                                                         *)
(* A value that Python leaves None or unbound is the empty sequence, a     *)
(* value that is set is a one-element sequence.                            *)
(***************************************************************************)
VARIABLES
    \* one call of interpolate_in
    par_prim,   \* key of the source column
    par_seg,    \* key of the target column
    valor,      \* the query value
    phase,      \* "idle" | "input" | "returned"
    result,     \* what the call ended in
    \* the program (__main__)
    argv,       \* the command line as given (never changes)
    args,       \* argparse's namespace (args.given is reassigned at line 214)
    pc,         \* the line about to run
    status,     \* "running" | "ok" | "exit1" | the exception that ended the run
    values, nval, d, Av, mbin, Lbin,
    i,          \* the star of the loop of line 217
    key,        \* position in convers of the loop of line 219
    newval, idx, MvStar,
    Vbin,       \* the composite magnitude of line 236, as its operands
    out         \* what has been printed

interpVars == << par_prim, par_seg, valor, phase, result >>

mainVars ==
    << argv, args, pc, status, values, nval, d, Av, mbin, Lbin, i, key,
       newval, idx, MvStar, Vbin, out >>

vars == << interpVars, mainVars >>

None == << >>

Some(x) == << x >>

(***************************************************************************)
(* Inputs.                                                                 *)
(***************************************************************************)
\* Query values for a column: every tabulated value, its neighbours within
\* QueryOffset, and the integer midpoints of consecutive rows.
Queries(a) ==
    {a[k] + o : k \in 1..Len(a), o \in (-QueryOffset)..QueryOffset}
    \cup {(a[k] + a[k + 1]) \div 2 : k \in 1..(Len(a) - 1)}

\* Rows whose tabulated value the program is run with: the first row, B8V,
\* G2V and G3V (logL changes sign between them), the last row of the middle
\* branch and the last row.
InputRows == {0, 23, 49, 50, Len(Teff) - margin, Len(Teff) - 1}

\* --given: absent, a key of convers, V, or a name that is no key.
GivenInputs == {None} \cup {Some(g) : g \in Keys \cup {"V", "logg"}}

\* The values of --val for a given axis (V and logg take the Mv column's).
StarValues(given) ==
    LET col == IF given # None /\ given[1] \in Keys
               THEN convers[given[1]] ELSE Mv
    IN  {col[r + 1] : r \in InputRows}

ValInputs(given) ==
    {None} \cup
    {Some(v) : v \in UNION {[1..n -> StarValues(given)] : n \in 1..MaxStars}}

\* --atdist in pc, or in mas with --mas
AtdistInputs == {None, Some(10), Some(100)}

\* --Ebv in 1/1000 mag
EbvInputs == {0, 25}

ArgsInputs ==
    UNION {[given : {g}, val : ValInputs(g), atdist : AtdistInputs,
            mas : BOOLEAN, Ebv : EbvInputs, binary : BOOLEAN]
           : g \in GivenInputs}

NoResult ==
    [outcome |-> "none", idx |-> 0, branch |-> "none", idx_peq |-> << >>,
     newval |-> NoValue]

NoVbin == [computed |-> FALSE, m2 |-> NoValue, num |-> NoValue, den |-> NoValue]

NoOutput ==
    [V |-> << >>, rec |-> << >>, sptype |-> << >>, binary |-> 0,
     convV |-> FALSE]

InterpIdle ==
    /\ par_prim = "Teff" /\ par_seg = "Teff" /\ valor = 0
    /\ phase = "idle" /\ result = NoResult

MainStart(a) ==
    /\ argv = a /\ args = a
    /\ status = "running"
    /\ values = << >> /\ nval = 0 /\ d = None /\ Av = 0
    /\ mbin = << >> /\ Lbin = << >>
    /\ i = 0 /\ key = 1
    /\ newval = None /\ idx = None /\ MvStar = None
    /\ Vbin = NoVbin /\ out = NoOutput

(***************************************************************************)
(* interpolate_in as a program of its own.                                 *)
(***************************************************************************)
InitInterpolate ==
    /\ par_prim \in Keys
    /\ par_seg \in Keys
    /\ valor \in Queries(convers[par_prim])
    /\ phase = "input" /\ result = NoResult
    /\ MainStart([given |-> None, val |-> None, atdist |-> None,
                  mas |-> FALSE, Ebv |-> 0, binary |-> FALSE])
    /\ pc = "idle"

\* src/mamajek.py:157-171
CallInterpolate ==
    /\ phase = "input"
    /\ result' = interpolate_in(convers[par_prim], convers[par_seg], valor)
    /\ phase' = "returned"
    /\ UNCHANGED << par_prim, par_seg, valor, mainVars >>

NextInterpolate == CallInterpolate

SpecInterpolate == InitInterpolate /\ [][NextInterpolate]_vars

(***************************************************************************)
(* The program, src/mamajek.py:174-240.                                    *)
(***************************************************************************)
\* np.log10 of a power of ten
RECURSIVE Log10(_)
Log10(x) == IF x <= 1 THEN 0 ELSE 1 + Log10(x \div 10)

\* 5 - 5*log10(dist), in 1/100 mag
AbsFromApparent(dist) == 500 - 500 * Log10(dist)

\* -5 + 5*log10(dist) + Av, in 1/100 mag
ApparentFromAbs(dist, av) == 500 * Log10(dist) - 500 + av

Known(v) == [known |-> TRUE, val |-> v]

Shift(x, by) == [x EXCEPT !.val = IF x.known THEN x.val + by ELSE 0]

\* seq[start:stop] of Python for a list: a negative bound counts from the
\* end, each bound is clamped to the list, and the slice is empty when the
\* start is not before the stop.
PySlice(seq, start, stop) ==
    LET n    == Len(seq)
        norm(b) == IF b < 0 THEN (IF b + n < 0 THEN 0 ELSE b + n)
                   ELSE IF b > n THEN n ELSE b
        lo   == norm(start)
        hi   == norm(stop)
    IN  IF lo >= hi THEN << >> ELSE SubSeq(seq, lo + 1, hi)

Crash(exc) ==
    /\ status' = exc
    /\ pc' = "done"

Init ==
    /\ InterpIdle
    /\ \E a \in ArgsInputs : MainStart(a)
    /\ pc = "L187"

\* lines 187-189: no --given
ExitNoGiven ==
    /\ pc = "L187"
    /\ args.given = None
    /\ Crash("exit1")
    /\ UNCHANGED << interpVars, argv, args, values, nval, d, Av, mbin, Lbin,
                    i, key, newval, idx, MvStar, Vbin, out >>

\* lines 191-194: no --val is reported, and args.val.find then fails
NoVal ==
    /\ pc = "L187"
    /\ args.given # None
    /\ args.val = None
    /\ Crash("AttributeError")
    /\ UNCHANGED << interpVars, argv, args, values, nval, d, Av, mbin, Lbin,
                    i, key, newval, idx, MvStar, Vbin, out >>

\* lines 194-209: the values are split, the distance and the extinction set
ParseArgs ==
    /\ pc = "L187"
    /\ args.given # None
    /\ args.val # None
    /\ values' = args.val[1]
    /\ nval' = Len(args.val[1])
    /\ d' = IF args.atdist # None /\ args.mas
            THEN Some(1000 \div args.atdist[1])
            ELSE args.atdist
    /\ Av' = (32 * args.Ebv) \div 100
    /\ IF args.binary
       THEN mbin' = << Known(0), Known(0) >> /\ Lbin' = << Known(0), Known(0) >>
       ELSE UNCHANGED << mbin, Lbin >>
    /\ pc' = "L211"
    /\ UNCHANGED << interpVars, argv, args, status, i, key, newval, idx,
                    MvStar, Vbin, out >>

\* line 211: the given axis is not V
SkipConvertV ==
    /\ pc = "L211"
    /\ args.given # Some("V")
    /\ pc' = "L217"
    /\ UNCHANGED << interpVars, argv, args, status, values, nval, d, Av, mbin,
                    Lbin, i, key, newval, idx, MvStar, Vbin, out >>

\* lines 211-215: V is turned into Mv
ConvertV ==
    /\ pc = "L211"
    /\ args.given = Some("V")
    /\ out' = [out EXCEPT !.convV = TRUE]
    /\ IF d = None
       THEN /\ Crash("TypeError")
            /\ UNCHANGED << args, values >>
       ELSE /\ args' = [args EXCEPT !.given = Some("Mv")]
            /\ values' = [k \in 1..Len(values) |->
                            values[k] + AbsFromApparent(d[1])]
            /\ pc' = "L217"
            /\ UNCHANGED status
    /\ UNCHANGED << interpVars, argv, nval, d, Av, mbin, Lbin, i, key,
                    newval, idx, MvStar, Vbin >>

\* lines 217-218: the next star, or the end of the loop
StarHeader ==
    /\ pc = "L217"
    /\ i < nval
    /\ key' = 1
    /\ out' = [out EXCEPT !.V = Append(@, 0), !.rec = Append(@, 0)]
    /\ pc' = "L219"
    /\ UNCHANGED << interpVars, argv, args, status, values, nval, d, Av, mbin,
                    Lbin, i, newval, idx, MvStar, Vbin >>

StarsDone ==
    /\ pc = "L217"
    /\ i >= nval
    /\ pc' = "L235"
    /\ UNCHANGED << interpVars, argv, args, status, values, nval, d, Av, mbin,
                    Lbin, i, key, newval, idx, MvStar, Vbin, out >>

\* lines 219-232: the body of the inner loop for one key of convers
KeyStep ==
    /\ pc = "L219"
    /\ LET k      == conversKeys[key]
           g      == args.given[1]
           vi     == values[i + 1]
           interp == k # g
           r1     == interpolate_in(convers[g], convers[k], vi)
           nv     == IF interp THEN Some(r1.newval) ELSE newval
           showV  == args.atdist # None /\ (g = "Mv" \/ k = "Mv")
           mvAbs  == IF g = "Mv" THEN Known(vi) ELSE nv[1]
           mv     == Shift(mvAbs, ApparentFromAbs(d[1], Av))
           store  == showV /\ args.binary /\ nval >= 2 /\ i <= 1
           r2     == interpolate_in(convers[g], convers["logL"], vi)
       IN  IF g \notin Keys
           THEN /\ Crash("KeyError")
                /\ UNCHANGED << key, newval, idx, MvStar, mbin, Lbin, out >>
           ELSE IF interp /\ r1.outcome # "value"
           THEN /\ Crash(r1.outcome)
                /\ UNCHANGED << key, newval, idx, MvStar, mbin, Lbin, out >>
           ELSE IF store /\ r2.outcome # "value"
           THEN /\ Crash(r2.outcome)
                /\ UNCHANGED << key, newval, idx, MvStar, mbin, Lbin, out >>
           ELSE /\ newval' = nv
                /\ idx' = IF interp THEN Some(r1.idx) ELSE idx
                /\ MvStar' = IF showV THEN Some(mvAbs) ELSE MvStar
                /\ mbin' = IF store THEN [mbin EXCEPT ![i + 1] = mv] ELSE mbin
                /\ Lbin' = IF store THEN [Lbin EXCEPT ![i + 1] = r2.newval]
                           ELSE Lbin
                /\ out' = [out EXCEPT
                             !.V[i + 1] = IF showV THEN @ + 1 ELSE @,
                             !.rec[i + 1] = IF store THEN @ + 1 ELSE @]
                /\ IF key < Len(conversKeys)
                   THEN key' = key + 1 /\ pc' = "L219"
                   ELSE key' = key /\ pc' = "L233"
                /\ UNCHANGED status
    /\ UNCHANGED << interpVars, argv, args, values, nval, d, Av, i, Vbin >>

\* line 233: the spectral types around the nearest row
PrintSpType ==
    /\ pc = "L233"
    /\ IF idx = None
       THEN /\ Crash("NameError")
            /\ UNCHANGED << i, out >>
       ELSE /\ out' = [out EXCEPT !.sptype = Append(@,
                        [idx |-> idx[1],
                         labels |-> PySlice(sptype, idx[1] - 1, idx[1] + 1)])]
            /\ i' = i + 1
            /\ pc' = "L217"
            /\ UNCHANGED status
    /\ UNCHANGED << interpVars, argv, args, values, nval, d, Av, mbin, Lbin,
                    key, newval, idx, MvStar, Vbin >>

\* line 235: no binary report
SkipBinary ==
    /\ pc = "L235"
    /\ ~(args.binary /\ nval >= 2)
    /\ pc' = "L240"
    /\ UNCHANGED << interpVars, argv, args, status, values, nval, d, Av, mbin,
                    Lbin, i, key, newval, idx, MvStar, Vbin, out >>

\* lines 235-238: Vbin = mbin[1] - 2.5*log10((Lbin[0] + Lbin[1]) / Lbin[1]),
\* kept as m2, num and den; the first line is printed, and the second one
\* formats d with :.0f, which fails for None
BinaryReport ==
    /\ pc = "L235"
    /\ args.binary /\ nval >= 2
    /\ Vbin' = [computed |-> TRUE,
                m2 |-> mbin[2],
                num |-> [known |-> Lbin[1].known /\ Lbin[2].known,
                         val |-> IF Lbin[1].known /\ Lbin[2].known
                                 THEN Lbin[1].val + Lbin[2].val ELSE 0],
                den |-> Lbin[2]]
    /\ IF d = None
       THEN /\ out' = [out EXCEPT !.binary = 1]
            /\ Crash("TypeError")
       ELSE /\ out' = [out EXCEPT !.binary = 2]
            /\ pc' = "L240"
            /\ UNCHANGED status
    /\ UNCHANGED << interpVars, argv, args, values, nval, d, Av, mbin, Lbin,
                    i, key, newval, idx, MvStar >>

\* line 240
PrintNote ==
    /\ pc = "L240"
    /\ status' = "ok"
    /\ pc' = "done"
    /\ UNCHANGED << interpVars, argv, args, values, nval, d, Av, mbin, Lbin,
                    i, key, newval, idx, MvStar, Vbin, out >>

Next ==
    \/ ExitNoGiven
    \/ NoVal
    \/ ParseArgs
    \/ SkipConvertV
    \/ ConvertV
    \/ StarHeader
    \/ StarsDone
    \/ KeyStep
    \/ PrintSpType
    \/ SkipBinary
    \/ BinaryReport
    \/ PrintNote

Spec == Init /\ [][Next]_vars

(***************************************************************************)
(* Properties of interpolate_in, checked under SpecInterpolate.            *)
(***************************************************************************)
Returned == phase = "returned"

src == convers[par_prim]

\* C1: when nearest_index < margin, the window is exactly the contiguous
\* rows 0 .. nearest_index + margin: nearest_index + margin + 1 rows, none
\* skipped and none repeated.
C1_HeadWindowIsContiguous ==
    (Returned /\ result.idx < margin)
        => result.idx_peq = [k \in 1..(result.idx + margin + 1) |-> k - 1]

\* C2: for every row r of the table, interpolate_in(Teff, logTeff, Teff[r])
\* returns without an error, with nearest_index = r and the value
\* logTeff[r], and row r is one of the rows of the window.
C2_SelfConsistency ==
    (Returned /\ par_prim = "Teff" /\ par_seg = "logTeff")
        => \A r \in Rows(Teff) :
              valor = Teff[r + 1]
                  => /\ result.outcome = "value"
                     /\ result.idx = r
                     /\ result.newval = Known(logTeff[r + 1])
                     /\ \E k \in 1..Len(result.idx_peq) : result.idx_peq[k] = r

\* C4 as stated: no query on any of the eight axes takes the third branch
\* (nearest_index > len - margin).
C4_TailBranchNeverTaken ==
    Returned => result.branch # "tail"

\* C4 as amended: the third branch is taken exactly by the queries whose
\* nearest_index is greater than len - margin, which for this table are the
\* rows 82 to 85.
C4_TailBranchIffPastMiddle ==
    Returned
        => /\ result.branch = "tail" <=> result.idx > Len(src) - margin
           /\ result.branch = "tail" <=> result.idx \in 82..85

C4_Witness ==
    Returned /\ result.branch = "tail" /\ result.outcome = "value"

StrictlyDecreasing(x) == \A k \in 1..(Len(x) - 1) : x[k] > x[k + 1]

\* C5: when the source values of the window, in table order, are not
\* strictly monotonic (in particular when two of them are equal), the call
\* ends in an error and returns no value.
C5_DegenerateWindowIsAnError ==
    (Returned /\ InBounds(result.idx_peq, Len(src)))
        => LET w == Take(src, result.idx_peq)
           IN  ~(StrictlyIncreasing(w) \/ StrictlyDecreasing(w))
                   => result.outcome # "value"

\* C7 as stated: the spectral-type array and each of the eight quantity
\* arrays have exactly 82 entries.
C7_ArraysHave82Rows ==
    /\ Len(convers[par_prim]) = 82
    /\ Len(convers[par_seg]) = 82
    /\ Len(sptype) = 82
    /\ \A k \in Keys : Len(convers[k]) = 82

\* C7 as amended: the spectral-type array and each of the eight quantity
\* arrays have exactly 86 entries, so the nine arrays are of equal length
\* and every row index of one is a row index of all.
C7_ArraysHave86Rows ==
    /\ Len(convers[par_prim]) = 86
    /\ Len(convers[par_seg]) = 86
    /\ Len(sptype) = 86
    /\ \A k \in Keys : Len(convers[k]) = 86
    /\ Returned => result.idx \in Rows(sptype) \cap Rows(convers[par_seg])

\* The call has used the last row of the source and of the target column.
C7_Witness ==
    /\ Returned /\ result.outcome = "value"
    /\ result.idx = Len(sptype) - 1
    /\ result.newval = Known(convers[par_seg][Len(sptype)])

\* C8: the returned nearest_index is the lowest index that minimises
\* |valor - source[i]|, and it is the same whichever target column the call
\* is made with.
C8_NearestIndexIsFirstMinimum ==
    (Returned /\ result.outcome = "value")
        => LET dist(r) == Abs(valor - src[r + 1])
           IN  /\ result.idx \in Rows(src)
               /\ \A r \in Rows(src) : dist(result.idx) <= dist(r)
               /\ \A r \in Rows(src) : r < result.idx => dist(r) > dist(result.idx)
               /\ \A t \in Keys :
                     LET other == interpolate_in(src, convers[t], valor)
                     IN  other.outcome = "value" /\ other.idx = result.idx

\* A query at equal distance from two rows, the earlier of which is returned.
C8_Witness ==
    /\ Returned /\ result.outcome = "value"
    /\ \E r \in Rows(src) :
          /\ r > result.idx
          /\ Abs(valor - src[r + 1]) = Abs(valor - src[result.idx + 1])

(***************************************************************************)
(* Properties of the program, checked under Spec.                          *)
(***************************************************************************)
\* C3: for every star the spectral-type bracket has exactly two labels, those
\* of the rows nearest_index - 1 and nearest_index in this order; at
\* nearest_index 0 it is clamped, never empty.
C3_BracketHasTwoLabels ==
    \A s \in 1..Len(out.sptype) :
       LET e == out.sptype[s]
       IN  /\ Len(e.labels) = 2
           /\ e.idx >= 1 => e.labels = << sptype[e.idx], sptype[e.idx + 1] >>

\* C6: run with --binary or with given axis V and without --atdist, the
\* program fails before it evaluates the conversion of V to Mv and before
\* it computes or prints any part of the binary report.
C6_MissingDistanceFailsFirst ==
    (/\ argv.given # None /\ argv.val # None
     /\ argv.atdist = None
     /\ (argv.binary \/ argv.given = Some("V")))
        => /\ ~out.convV
           /\ ~Vbin.computed
           /\ out.binary = 0
           /\ status # "ok"

\* A ratio num/den of two numbers in the same unit is greater than 1.
RatioAboveOne(num, den) ==
    \/ den > 0 /\ num > den
    \/ den < 0 /\ num < den

\* C9: with a distance and in binary mode the composite is
\* V_2 - 2.5*log10((L_1 + L_2)/L_2) with L_i = 10^(logL_i), a luminosity
\* and not its logarithm: both L_i are positive, the ratio is greater than 1
\* and the composite is not fainter than component 2.
C9_CompositeOfLuminosities ==
    (/\ Vbin.computed /\ argv.atdist # None
     /\ Vbin.num.known /\ Vbin.den.known)
        => /\ Lbin[1].val > 0 /\ Lbin[2].val > 0
           /\ RatioAboveOne(Vbin.num.val, Vbin.den.val)

\* C10: with a distance, V is printed exactly once for every star, whichever
\* axis is given, and in binary mode the magnitude and logL of each of the
\* first two stars are stored exactly once.
C10_VOncePerStar ==
    argv.atdist # None
        => \A s \in 1..Len(out.sptype) :
              /\ out.V[s] = 1
              /\ (args.binary /\ nval >= 2 /\ s <= 2) => out.rec[s] = 1

====
